---- MODULE Spec2Model ----
(***************************************************************************)
(* Model of the maze generators of grid-maze-editor                        *)
(* (src/src/utils/mazeGenerators.ts): generateMazeDFS, generateMazePrim,   *)
(* generateMazeKruskal, generateMazeBinaryTree and generateRandomMaze.     *)
(* One invocation is a run from a Call action to pc = "done"; every loop   *)
(* iteration of a generator is one action.  Math.random() is a value       *)
(* u / RandRes with u in 0 .. RandRes-1.                                   *)
(***************************************************************************)
EXTENDS Integers, Sequences, FiniteSets, TLC

\* ------------------------------------------------------------------ bounds
MaxRows == 5      \* largest requested size.rows
MaxCols == 5      \* largest requested size.cols
MaxWalls == 4     \* largest Kruskal edge list that is shuffled
RandRes == 5      \* the random source returns u / RandRes, u in 0 .. RandRes-1
MaxRandomRows == 2  \* largest size.rows handed to generateRandomMaze
MaxRandomCols == 2  \* largest size.cols handed to generateRandomMaze
DetMaxCellRows == 2  \* most maze-cell rows of a recorded perfect-maze invocation
DetMaxCellCols == 2  \* most maze-cell columns of a recorded perfect-maze invocation
DetMaxCells == 4     \* most maze cells of a recorded perfect-maze invocation
DetMaxRandomRows == 1  \* largest size.rows of a recorded generateRandomMaze invocation
DetMaxRandomCols == 1  \* largest size.cols of a recorded generateRandomMaze invocation
MaxDeficit == 1   \* how far below 1 a dimension handed to a generator may be
MaxAnyRows == 3   \* largest size.rows of a call that may break the contract
MaxAnyCols == 3   \* largest size.cols of a call that may break the contract
MaxExcess == 2    \* how far outside 0 .. RandRes a density numerator may be
UtilMaxRows == 2  \* most rows of a grid handed to updateCell or an export
UtilMaxCols == 2  \* most columns of a grid handed to updateCell or an export

\* ------------------------------------------------------------- cell values
Wall == 0
Walkable == 1

VARIABLES
  pc,          \* "idle", the loop a generator is in, or "done" (returned)
  gen,         \* the generator invoked: "dfs","prim","kruskal","binary","random"
  size,        \* the size argument [rows, cols]
  wallDensity, \* the density argument of generateRandomMaze, as a numerator over RandRes
  rows, cols,  \* the odd-adjusted working dimensions
  grid,        \* grid[row][col], 0-based
  visited,     \* visited[row][col] of DFS and Prim
  stack,       \* the DFS stack
  frontiers,   \* the Prim frontier list
  parent,      \* the Kruskal parent map, key -> key
  walls,       \* the Kruskal edge list
  i,           \* index of the shuffle loop / of the for-of loop over walls
  row, col,    \* loop indices of the Binary-Tree and Density-Random scans
  newRow,      \* the row generateRandomMaze is filling
  random,      \* the sample generateRandomMaze drew for the current cell
  added,       \* history: how often each maze cell was pushed / enqueued
  removed,     \* history: how often each maze cell was popped / dequeued
  opened,      \* history: the midpoints each Binary-Tree cell opened from itself
  skipped,     \* history: frontier cells dequeued without a finalized neighbour
  mode,        \* "free", "record" or "replay": how the random source is driven
  tape,        \* the values the random source returned in the recorded invocation
  tpos,        \* how many values the current invocation has consumed
  prev,        \* the grid the recorded invocation returned, or <<"none">>
  drawMode,    \* App state: the tool a click applies
  event,       \* the event the window dispatched last
  arg,         \* the grid handed to a utility of gridUtils / exportUtils
  ret,         \* the last call of such a utility and what it returned
  gridSize,    \* App state: the requested size [rows, cols]
  appGrid,     \* App state: the grid on display
  startPos,    \* App state: <<>> for null, or << position >>
  goalPos,     \* App state: <<>> for null, or << position >>
  isPainting,  \* App state: a drag is in progress
  lastPaintedCell, \* GridCanvas ref: <<>> for null, or << "row,col" >>
  isRightClick,    \* GridCanvas ref: the drag paints with the right button
  mouse,       \* the mouse event GridCanvas handled last and the callback it invoked
  origin,      \* history: the call that produced the grid on display
  drag         \* history: "left" or "right", the button of the last mouse-down on a cell
               \* since the last mouse-up or mouse-leave, or "none"

vars == <<pc, gen, size, wallDensity, rows, cols, grid, visited, stack,
          frontiers, parent, walls, i, row, col, newRow, random, added, removed,
          opened, skipped, mode, tape, tpos, prev, drawMode, event, arg, ret,
          gridSize, appGrid, startPos, goalPos, isPainting, lastPaintedCell,
          isRightClick, mouse, origin, drag>>

editorVars == <<gridSize, appGrid, startPos, goalPos, origin>>

canvasVars == <<isPainting, lastPaintedCell, isRightClick, mouse, drag>>

appVars == <<drawMode, event, arg, ret, editorVars, canvasVars>>

genVars == <<visited, stack, frontiers, parent, walls, i, row, col, newRow, random>>

\* ---------------------------------------------------------------- helpers
Pos(r, c) == [row |-> r, col |-> c]

GridSize(r, c) == [rows |-> r, cols |-> c]

\* mutant: an even dimension is rounded up
OddAdjustUp(n) == IF n % 2 = 0 THEN n + 1 ELSE n

\* mutant: the requested dimension is used unadjusted
OddAdjustNever(n) == n

\* const rows = size.rows % 2 === 0 ? size.rows - 1 : size.rows
OddAdjust(n) == IF n % 2 = 0 THEN n - 1 ELSE n

\* the nested fill loops: a rs x cs array holding v everywhere
MakeGrid(rs, cs, v) == [r \in 0 .. rs - 1 |-> [c \in 0 .. cs - 1 |-> v]]

\* a[c] = v on a JavaScript array: an index the array lacks is created
ArraySet(a, c, v) == [n \in DOMAIN a \cup {c} |-> IF n = c THEN v ELSE a[n]]

\* g[r][c] = v, for a row g[r] that exists
SetCell(g, r, c, v) == [g EXCEPT ![r] = ArraySet(@, c, v)]

\* Array.prototype.push on a 0-based array
Push(a, x) == [n \in 0 .. Cardinality(DOMAIN a) |-> IF n \in DOMAIN a THEN a[n] ELSE x]

InBounds(r, c) == r >= 0 /\ r < rows /\ c >= 0 /\ c < cols

directions == << Pos(-2, 0), Pos(2, 0), Pos(0, -2), Pos(0, 2) >>

\* the maze cells of an rs x cs working grid
MazeCells(rs, cs) ==
  { Pos(r, c) : r \in { x \in 0 .. rs - 1 : x % 2 = 0 },
                c \in { x \in 0 .. cs - 1 : x % 2 = 0 } }

ZeroCount(rs, cs) == [p \in MazeCells(rs, cs) |-> 0]

Bump(f, p) ==
  [q \in DOMAIN f \cup {p} |->
     IF q = p THEN (IF p \in DOMAIN f THEN f[p] ELSE 0) + 1 ELSE f[q]]

\* ---------------------------------------------------------- random source
RandomValues == 0 .. RandRes - 1

\* Math.floor(Math.random() * n) for Math.random() = u / RandRes
RandomIndex(u, n) == (u * n) \div RandRes

\* the k-th draw of this step may return u: a replayed source repeats the tape
Source(u, k) ==
  (mode = "replay" /\ tpos + k <= Len(tape)) => u = tape[tpos + k]

\* the source has handed out the values us in this step
Consume(us) ==
  /\ tpos' = tpos + Len(us)
  /\ tape' = CASE mode = "free"   -> tape
               [] mode = "record" -> tape \o us
               [] OTHER -> [n \in 1 .. (IF tpos + Len(us) > Len(tape)
                                         THEN tpos + Len(us) ELSE Len(tape)) |->
                              IF n <= Len(tape) THEN tape[n] ELSE us[n - tpos]]

NoDraw == UNCHANGED <<tape, tpos>>

\* ------------------------------------------------------------------- Init
\* no event was dispatched yet
NoEvent ==
  [type |-> "none", key |-> "", ctrlKey |-> FALSE, metaKey |-> FALSE, altKey |-> FALSE,
   shiftKey |-> FALSE, target |-> "BODY"]

\* no utility was called yet
NoCall ==
  [fn |-> "none", row |-> 0, col |-> 0, value |-> 0, invertValues |-> FALSE,
   result |-> <<>>]

\* no generator is running
Idle ==
  /\ pc = "idle"
  /\ gen = "none"
  /\ size = GridSize(1, 1)
  /\ wallDensity = 0
  /\ rows = 1
  /\ cols = 1
  /\ grid = MakeGrid(1, 1, Walkable)
  /\ visited = <<>>
  /\ stack = <<>>
  /\ frontiers = <<>>
  /\ parent = <<>>
  /\ walls = <<>>
  /\ i = 0
  /\ row = 0
  /\ col = 0
  /\ newRow = <<>>
  /\ random = 0
  /\ added = <<>>
  /\ removed = <<>>
  /\ opened = <<>>
  /\ skipped = 0
  /\ mode = "free"
  /\ tape = <<>>
  /\ tpos = 0
  /\ prev = <<"none">>

\* useState({ rows: 10, cols: 10 })
InitialRows == 10

InitialCols == 10

\* the mouse has not acted on the canvas yet
NoMouse == [type |-> "none", row |-> 0, col |-> 0, button |-> 0, callback |-> "none"]

\* the state App and GridCanvas mount with
Mounted ==
  /\ gridSize = GridSize(InitialRows, InitialCols)
  /\ appGrid = MakeGrid(InitialRows, InitialCols, Walkable)
  /\ startPos = <<>>
  /\ goalPos = <<>>
  /\ isPainting = FALSE
  /\ lastPaintedCell = <<>>
  /\ isRightClick = FALSE
  /\ mouse = NoMouse
  /\ origin = "createEmptyGrid"
  /\ drag = "none"

Init ==
  /\ Idle
  /\ drawMode = "wall"
  /\ event = NoEvent
  /\ arg = MakeGrid(1, 1, Walkable)
  /\ ret = NoCall
  /\ Mounted

\* what every invocation starts from: the arguments and a rewound history
Enter(g, sz, d, m) ==
  /\ gen' = g
  /\ size' = sz
  /\ wallDensity' = d
  /\ mode' = m
  /\ tpos' = 0
  /\ tape' = IF m = "replay" THEN tape ELSE <<>>
  /\ prev' = IF m = "replay" THEN grid ELSE <<"none">>
  /\ skipped' = 0
  /\ UNCHANGED appVars

\* fresh locals an invocation does not use
Fresh ==
  [visited |-> <<>>, stack |-> <<>>, frontiers |-> <<>>, parent |-> <<>>,
   walls |-> <<>>, i |-> 0, row |-> 0, col |-> 0, newRow |-> <<>>, random |-> 0]

Locals(f) ==
  /\ visited' = f.visited
  /\ stack' = f.stack
  /\ frontiers' = f.frontiers
  /\ parent' = f.parent
  /\ walls' = f.walls
  /\ i' = f.i
  /\ row' = f.row
  /\ col' = f.col
  /\ newRow' = f.newRow
  /\ random' = f.random

\* grid[startRow] is undefined when the fill loop made no row: the assignment
\* grid[startRow][startCol] = 1 throws a TypeError out of the generator
Throw(g) ==
  /\ grid' = g
  /\ Locals(Fresh)
  /\ added' = <<>>
  /\ removed' = <<>>
  /\ opened' = <<>>
  /\ pc' = "TypeError"

\* return grid: the loop is over and the invocation hands its grid back
ReturnGrid ==
  /\ pc' = "done"
  /\ NoDraw
  /\ UNCHANGED <<gen, size, wallDensity, rows, cols, grid, added, removed, opened,
                 skipped, mode, prev, appVars>>
  /\ UNCHANGED genVars

\* mutant: the array of the previous invocation is reused when it fits
NewVisitedStale(rs, cs) ==
  IF DOMAIN visited = 0 .. rs - 1 /\ \A r \in DOMAIN visited : DOMAIN visited[r] = 0 .. cs - 1
  THEN visited
  ELSE MakeGrid(rs, cs, FALSE)

\* the visited array an invocation allocates: rs x cs, all false
NewVisited(rs, cs) == MakeGrid(rs, cs, FALSE)

\* ------------------------------------------------------- generateMazeDFS
\* mutant: the upper bounds are off by one
getUnvisitedNeighborsShort(r, c, vis) ==
  LET cand(n) == Pos(r + directions[n].row, c + directions[n].col)
      ok(p) == /\ p.row >= 0 /\ p.row < rows - 1
               /\ p.col >= 0 /\ p.col < cols - 1
               /\ ~vis[p.row][p.col]
  IN  SelectSeq([n \in 1 .. 4 |-> cand(n)], ok)

\* mutant: a visited neighbour is a candidate too
getUnvisitedNeighborsAll(r, c, vis) ==
  LET cand(n) == Pos(r + directions[n].row, c + directions[n].col)
      ok(p) == InBounds(p.row, p.col)
  IN  SelectSeq([n \in 1 .. 4 |-> cand(n)], ok)

getUnvisitedNeighbors(r, c, vis) ==
  LET cand(n) == Pos(r + directions[n].row, c + directions[n].col)
      ok(p) == InBounds(p.row, p.col) /\ ~vis[p.row][p.col]
  IN  SelectSeq([n \in 1 .. 4 |-> cand(n)], ok)

\* mutant: the cell diagonally next to from
WallBetweenDiagonal(from, to) == Pos(from.row + 1, from.col + 1)

\* Math.floor((from.row + to.row) / 2), Math.floor((from.col + to.col) / 2)
WallBetween(from, to) == Pos((from.row + to.row) \div 2, (from.col + to.col) \div 2)

\* mutant: the cell opened is from itself, not the midpoint
removeWallBetweenFrom(g, from, to) == SetCell(g, from.row, from.col, Walkable)

removeWallBetween(g, from, to) ==
  SetCell(g, WallBetween(from, to).row, WallBetween(from, to).col, Walkable)

StartDFS(sz, m) ==
  LET rs == OddAdjust(sz.rows)
      cs == OddAdjust(sz.cols)
      g0 == MakeGrid(rs, cs, Wall)
  IN  /\ Enter("dfs", sz, 0, m)
      /\ rows' = rs
      /\ cols' = cs
      /\ IF 0 \in DOMAIN g0
         THEN /\ grid' = SetCell(g0, 0, 0, Walkable)
              /\ Locals([Fresh EXCEPT !.visited = SetCell(NewVisited(rs, cs), 0, 0, TRUE),
                                      !.stack = << Pos(0, 0) >>])
              /\ added' = Bump(ZeroCount(rs, cs), Pos(0, 0))
              /\ removed' = ZeroCount(rs, cs)
              /\ opened' = <<>>
              /\ pc' = "dfs"
         ELSE Throw(g0)

DFSPush ==
  /\ pc = "dfs"
  /\ Len(stack) > 0
  /\ LET current == stack[Len(stack)]
         neighbors == getUnvisitedNeighbors(current.row, current.col, visited)
     IN  /\ Len(neighbors) > 0
         /\ \E u \in RandomValues :
              LET next == neighbors[RandomIndex(u, Len(neighbors)) + 1]
              IN  /\ Source(u, 1)
                  /\ Consume(<<u>>)
                  /\ grid' = removeWallBetween(SetCell(grid, next.row, next.col, Walkable),
                                               current, next)
                  /\ visited' = SetCell(visited, next.row, next.col, TRUE)
                  /\ stack' = Append(stack, next)
                  /\ added' = Bump(added, next)
  /\ UNCHANGED <<pc, gen, size, wallDensity, rows, cols, frontiers, parent, walls,
                 i, row, col, newRow, random, removed, opened, skipped, mode, prev, appVars>>

DFSPop ==
  /\ pc = "dfs"
  /\ Len(stack) > 0
  /\ LET current == stack[Len(stack)]
     IN  /\ Len(getUnvisitedNeighbors(current.row, current.col, visited)) = 0
         /\ stack' = SubSeq(stack, 1, Len(stack) - 1)
         /\ removed' = Bump(removed, current)
  /\ NoDraw
  /\ UNCHANGED <<pc, gen, size, wallDensity, rows, cols, grid, visited, frontiers,
                 parent, walls, i, row, col, newRow, random, added, opened, skipped, mode, prev, appVars>>

DFSReturn == pc = "dfs" /\ Len(stack) = 0 /\ ReturnGrid

\* ------------------------------------------------------ generateMazePrim
\* the loop of addFrontiers from direction n on; st = [frontiers, visited, added]
\* rs, cs are the rows, cols the closure captured
RECURSIVE addFrontiersFrom(_, _, _, _, _, _)
addFrontiersFrom(n, r, c, st, rs, cs) ==
  IF n > Len(directions) THEN st
  ELSE LET nr == r + directions[n].row
           nc == c + directions[n].col
       IN  IF nr >= 0 /\ nr < rs /\ nc >= 0 /\ nc < cs /\ ~st.visited[nr][nc]
           THEN addFrontiersFrom(n + 1, r, c,
                  [frontiers |-> Append(st.frontiers, Pos(nr, nc)),
                   visited |-> SetCell(st.visited, nr, nc, TRUE),
                   added |-> Bump(st.added, Pos(nr, nc))], rs, cs)
           ELSE addFrontiersFrom(n + 1, r, c, st, rs, cs)

\* mutant: the cells four steps away are enqueued as well
addFrontiersFar(r, c, st, rs, cs) ==
  LET near == addFrontiersFrom(1, r, c, st, rs, cs)
      far(n) == Pos(r + 2 * directions[n].row, c + 2 * directions[n].col)
      new == SelectSeq([n \in 1 .. 4 |-> far(n)],
               LAMBDA p : /\ p.row >= 0 /\ p.row < rs /\ p.col >= 0 /\ p.col < cs
                          /\ ~near.visited[p.row][p.col])
      RECURSIVE mark(_, _)
      mark(vis, ps) == IF ps = <<>> THEN vis
                       ELSE mark(SetCell(vis, Head(ps).row, Head(ps).col, TRUE), Tail(ps))
      RECURSIVE count(_, _)
      count(f, ps) == IF ps = <<>> THEN f ELSE count(Bump(f, Head(ps)), Tail(ps))
  IN  [frontiers |-> near.frontiers \o new,
       visited |-> mark(near.visited, new),
       added |-> count(near.added, new)]

\* mutant: an enqueued cell is not marked visited
addFrontiersUnmarked(r, c, st, rs, cs) ==
  [addFrontiersFrom(1, r, c, st, rs, cs) EXCEPT !.visited = st.visited]

addFrontiers(r, c, st, rs, cs) == addFrontiersFrom(1, r, c, st, rs, cs)

\* mutant: any neighbour in bounds counts as part of the maze
getNeighborInBounds(r, c, g) ==
  LET cand(n) == Pos(r + directions[n].row, c + directions[n].col)
      ok(p) == InBounds(p.row, p.col)
  IN  SelectSeq([n \in 1 .. 4 |-> cand(n)], ok)

getNeighborInMaze(r, c, g) ==
  LET cand(n) == Pos(r + directions[n].row, c + directions[n].col)
      ok(p) == InBounds(p.row, p.col) /\ g[p.row][p.col] = 1
  IN  SelectSeq([n \in 1 .. 4 |-> cand(n)], ok)

\* frontiers.splice(index, 1), index 0-based
Splice(seq, index) == SubSeq(seq, 1, index) \o SubSeq(seq, index + 2, Len(seq))

StartPrim(sz, m) ==
  LET rs == OddAdjust(sz.rows)
      cs == OddAdjust(sz.cols)
      g0 == MakeGrid(rs, cs, Wall)
      seed == addFrontiers(0, 0,
                [frontiers |-> <<>>,
                 visited |-> SetCell(NewVisited(rs, cs), 0, 0, TRUE),
                 added |-> ZeroCount(rs, cs)], rs, cs)
  IN  /\ Enter("prim", sz, 0, m)
      /\ rows' = rs
      /\ cols' = cs
      /\ IF 0 \in DOMAIN g0
         THEN /\ grid' = SetCell(g0, 0, 0, Walkable)
              /\ Locals([Fresh EXCEPT !.frontiers = seed.frontiers,
                                      !.visited = seed.visited])
              /\ added' = seed.added
              /\ removed' = ZeroCount(rs, cs)
              /\ opened' = <<>>
              /\ pc' = "prim"
         ELSE Throw(g0)

PrimStep ==
  /\ pc = "prim"
  /\ Len(frontiers) > 0
  /\ \E u1 \in RandomValues :
       LET randomIndex == RandomIndex(u1, Len(frontiers))
           current == frontiers[randomIndex + 1]
           rest == Splice(frontiers, randomIndex)
           neighbors == getNeighborInMaze(current.row, current.col, grid)
       IN  /\ Source(u1, 1)
           /\ removed' = Bump(removed, current)
           /\ IF Len(neighbors) > 0
              THEN \E u2 \in RandomValues :
                     LET neighbor == neighbors[RandomIndex(u2, Len(neighbors)) + 1]
                         wall == WallBetween(current, neighbor)
                         st == addFrontiers(current.row, current.col,
                                 [frontiers |-> rest, visited |-> visited, added |-> added],
                                 rows, cols)
                     IN  /\ Source(u2, 2)
                         /\ Consume(<<u1, u2>>)
                         /\ grid' = SetCell(SetCell(grid, current.row, current.col, Walkable),
                                            wall.row, wall.col, Walkable)
                         /\ frontiers' = st.frontiers
                         /\ visited' = st.visited
                         /\ added' = st.added
                         /\ skipped' = skipped
              ELSE /\ Consume(<<u1>>)
                   /\ frontiers' = rest
                   /\ skipped' = skipped + 1
                   /\ UNCHANGED <<grid, visited, added>>
  /\ UNCHANGED <<pc, gen, size, wallDensity, rows, cols, stack, parent, walls,
                 i, row, col, newRow, random, opened, mode, prev, appVars>>

PrimReturn == pc = "prim" /\ Len(frontiers) = 0 /\ ReturnGrid

\* --------------------------------------------------- generateMazeKruskal
\* the template literal `${row},${col}`
Key(r, c) == ToString(r) \o "," \o ToString(c)

\* mutant: find returns the root and leaves the parent map as it is
RECURSIVE findNoCompress(_, _)
findNoCompress(par, cell) ==
  IF par[cell] # cell
  THEN [root |-> findNoCompress(par, par[cell]).root, parent |-> par]
  ELSE [root |-> cell, parent |-> par]

\* mutant: find does not follow the parent links
findSelf(par, cell) == [root |-> cell, parent |-> par]

\* find(cell) with its path compression: the root and the parent map afterwards
RECURSIVE find(_, _)
find(par, cell) ==
  IF par[cell] # cell
  THEN LET sub == find(par, par[cell])
           set == [sub.parent EXCEPT ![cell] = sub.root]
       IN  [root |-> set[cell], parent |-> set]
  ELSE [root |-> par[cell], parent |-> par]

\* mutant: the two roots are pointed at each other
unionBoth(par, cell1, cell2) ==
  LET f1 == find(par, cell1)
      f2 == find(f1.parent, cell2)
  IN  IF f1.root # f2.root
      THEN [f2.parent EXCEPT ![f2.root] = f1.root, ![f1.root] = f2.root]
      ELSE f2.parent

\* mutant: the cell, not its root, is re-pointed
unionCells(par, cell1, cell2) ==
  LET f1 == find(par, cell1)
      f2 == find(f1.parent, cell2)
  IN  IF f1.root # f2.root
      THEN [f2.parent EXCEPT ![cell2] = cell1]
      ELSE f2.parent

\* mutant: union never re-points a root
unionNever(par, cell1, cell2) == find(find(par, cell1).parent, cell2).parent

\* union(cell1, cell2): the parent map afterwards
union(par, cell1, cell2) ==
  LET f1 == find(par, cell1)
      f2 == find(f1.parent, cell2)
  IN  IF f1.root # f2.root
      THEN [f2.parent EXCEPT ![f2.root] = f1.root]
      ELSE f2.parent

\* how many iterations "for (x = 0; x < n; x += 2)" makes
EvenCount(n) == IF n > 0 THEN (n + 1) \div 2 ELSE 0

\* the maze cells in the order the nested loops visit them
cellList(rs, cs) ==
  [n \in 1 .. EvenCount(rs) * EvenCount(cs) |->
     Pos(2 * ((n - 1) \div EvenCount(cs)), 2 * ((n - 1) % EvenCount(cs)))]

\* the walls array before the shuffle: per cell its right edge, then its lower edge
RECURSIVE wallList(_, _, _)
wallList(cells, rs, cs) ==
  IF cells = <<>> THEN <<>>
  ELSE LET p == Head(cells)
           right == IF p.col + 2 < cs
                    THEN << [from |-> p, to |-> Pos(p.row, p.col + 2)] >> ELSE <<>>
           below == IF p.row + 2 < rs
                    THEN << [from |-> p, to |-> Pos(p.row + 2, p.col)] >> ELSE <<>>
       IN  right \o below \o wallList(Tail(cells), rs, cs)

StartKruskal(sz, m) ==
  LET rs == OddAdjust(sz.rows)
      cs == OddAdjust(sz.cols)
      cells == cellList(rs, cs)
      ws == wallList(cells, rs, cs)
  IN  /\ Len(ws) <= MaxWalls
      /\ Enter("kruskal", sz, 0, m)
      /\ rows' = rs
      /\ cols' = cs
      /\ grid' = [r \in 0 .. rs - 1 |-> [c \in 0 .. cs - 1 |->
                    IF r % 2 = 0 /\ c % 2 = 0 THEN Walkable ELSE Wall]]
      /\ Locals([Fresh EXCEPT
                   !.parent = [k \in { Key(cells[n].row, cells[n].col) :
                                       n \in 1 .. Len(cells) } |-> k],
                   !.walls = ws,
                   !.i = Len(ws) - 1])
      /\ added' = <<>>
      /\ removed' = <<>>
      /\ opened' = <<>>
      /\ pc' = "shuffle"

\* mutant: walls[i] = walls[j] without the assignment back
SwapCopy(seq, a, b) == [seq EXCEPT ![a + 1] = seq[b + 1]]

\* [walls[i], walls[j]] = [walls[j], walls[i]], i and j 0-based
Swap(seq, a, b) == [seq EXCEPT ![a + 1] = seq[b + 1], ![b + 1] = seq[a + 1]]

\* the shuffle loop from index n down, for the samples us of Math.random()
RECURSIVE shuffleFrom(_, _, _)
shuffleFrom(ws, us, n) ==
  IF n > 0 /\ us # <<>>
  THEN shuffleFrom(Swap(ws, n, RandomIndex(Head(us), n + 1)), Tail(us), n - 1)
  ELSE ws

\* for (let i = walls.length - 1; i > 0; i--) { j = ...; swap }
shuffle(ws, us) == shuffleFrom(ws, us, Len(ws) - 1)

ShuffleStep ==
  /\ pc = "shuffle"
  /\ i > 0
  /\ \E u \in RandomValues :
       LET j == RandomIndex(u, i + 1)
       IN  /\ Source(u, 1)
           /\ Consume(<<u>>)
           /\ walls' = Swap(walls, i, j)
  /\ i' = i - 1
  /\ UNCHANGED <<pc, gen, size, wallDensity, rows, cols, grid, visited, stack, frontiers,
                 parent, row, col, newRow, random, added, removed, opened, skipped, mode, prev, appVars>>

ShuffleExit ==
  /\ pc = "shuffle"
  /\ ~(i > 0)
  /\ pc' = "kruskal"
  /\ i' = 0
  /\ NoDraw
  /\ UNCHANGED <<gen, size, wallDensity, rows, cols, grid, visited, stack, frontiers,
                 parent, walls, row, col, newRow, random, added, removed, opened, skipped,
                 mode, prev, appVars>>

KruskalStep ==
  /\ pc = "kruskal"
  /\ i < Len(walls)
  /\ LET wall == walls[i + 1]
         key1 == Key(wall.from.row, wall.from.col)
         key2 == Key(wall.to.row, wall.to.col)
         f1 == find(parent, key1)
         f2 == find(f1.parent, key2)
         mid == WallBetween(wall.from, wall.to)
     IN  IF f1.root # f2.root
         THEN /\ grid' = SetCell(grid, mid.row, mid.col, Walkable)
              /\ parent' = union(f2.parent, key1, key2)
         ELSE /\ grid' = grid
              /\ parent' = f2.parent
  /\ i' = i + 1
  /\ NoDraw
  /\ UNCHANGED <<pc, gen, size, wallDensity, rows, cols, visited, stack, frontiers,
                 walls, row, col, newRow, random, added, removed, opened, skipped, mode, prev, appVars>>

KruskalReturn == pc = "kruskal" /\ ~(i < Len(walls)) /\ ReturnGrid

\* ------------------------------------------------ generateMazeBinaryTree
StartBinaryTree(sz, m) ==
  LET rs == OddAdjust(sz.rows)
      cs == OddAdjust(sz.cols)
  IN  /\ Enter("binary", sz, 0, m)
      /\ rows' = rs
      /\ cols' = cs
      /\ grid' = MakeGrid(rs, cs, Wall)
      /\ Locals(Fresh)
      /\ added' = <<>>
      /\ removed' = <<>>
      /\ opened' = [p \in MazeCells(rs, cs) |-> {}]
      /\ pc' = "binary"

\* mutant: the bias is up and left
BinaryNeighborsUpLeft(r, c) ==
  (IF r > 0 THEN << Pos(r - 2, c) >> ELSE <<>>) \o
  (IF c > 0 THEN << Pos(r, c - 2) >> ELSE <<>>)

\* mutant: only the right neighbour is a candidate
BinaryNeighborsRightOnly(r, c) ==
  IF c + 2 < cols THEN << Pos(r, c + 2) >> ELSE <<>>

\* mutant: the bias is down and right
BinaryNeighborsDownRight(r, c) ==
  (IF r + 2 < rows THEN << Pos(r + 2, c) >> ELSE <<>>) \o
  (IF c + 2 < cols THEN << Pos(r, c + 2) >> ELSE <<>>)

\* the candidates of the cell at (r, c): up first, then right
BinaryNeighbors(r, c) ==
  (IF r > 0 THEN << Pos(r - 2, c) >> ELSE <<>>) \o
  (IF c + 2 < cols THEN << Pos(r, c + 2) >> ELSE <<>>)

BinaryCell ==
  /\ pc = "binary"
  /\ row < rows
  /\ col < cols
  /\ LET neighbors == BinaryNeighbors(row, col)
         g1 == SetCell(grid, row, col, Walkable)
     IN  IF Len(neighbors) > 0
         THEN \E u \in RandomValues :
                LET neighbor == neighbors[RandomIndex(u, Len(neighbors)) + 1]
                    wall == WallBetween(Pos(row, col), neighbor)
                IN  /\ Source(u, 1)
                    /\ Consume(<<u>>)
                    /\ grid' = SetCell(g1, wall.row, wall.col, Walkable)
                    /\ opened' = [opened EXCEPT ![Pos(row, col)] = @ \cup {wall}]
         ELSE /\ grid' = g1
              /\ NoDraw
              /\ opened' = opened
  /\ col' = col + 2
  /\ UNCHANGED <<pc, gen, size, wallDensity, rows, cols, visited, stack, frontiers,
                 parent, walls, i, row, newRow, random, added, removed, skipped, mode, prev, appVars>>

\* the inner loop is over: next maze-cell row
BinaryRowEnd ==
  /\ pc = "binary"
  /\ row < rows
  /\ ~(col < cols)
  /\ row' = row + 2
  /\ col' = 0
  /\ NoDraw
  /\ UNCHANGED <<pc, gen, size, wallDensity, rows, cols, grid, visited, stack, frontiers,
                 parent, walls, i, newRow, random, added, removed, opened, skipped, mode, prev, appVars>>

BinaryReturn == pc = "binary" /\ ~(row < rows) /\ ReturnGrid

\* ---------------------------------------------------- generateRandomMaze
\* densities n / RandRes, 0.0 to 1.0
Densities == 0 .. RandRes

StartRandom(sz, d, m) ==
  /\ Enter("random", sz, d, m)
  /\ rows' = sz.rows
  /\ cols' = sz.cols
  /\ grid' = <<>>
  /\ Locals(Fresh)
  /\ added' = <<>>
  /\ removed' = <<>>
  /\ opened' = <<>>
  /\ pc' = "random"

\* mutant: only the fractional part of the density counts
CellValueOfFraction(u, d) == IF u < d % RandRes THEN 0 ELSE 1

\* mutant: <= in place of <
CellValueOfInclusive(u, d) == IF u <= d THEN 0 ELSE 1

\* random < wallDensity ? 0 : 1, for random = u / RandRes
CellValueOf(u, d) == IF u < d THEN 0 ELSE 1

RandomCell ==
  /\ pc = "random"
  /\ row < size.rows
  /\ col < size.cols
  /\ \E u \in RandomValues :
       /\ Source(u, 1)
       /\ Consume(<<u>>)
       /\ random' = u
       /\ newRow' = Push(newRow, CellValueOf(u, wallDensity))
  /\ col' = col + 1
  /\ UNCHANGED <<pc, gen, size, wallDensity, rows, cols, grid, visited, stack, frontiers,
                 parent, walls, i, row, added, removed, opened, skipped, mode, prev, appVars>>

\* grid.push(newRow); the next iteration starts an empty newRow
RandomRowEnd ==
  /\ pc = "random"
  /\ row < size.rows
  /\ ~(col < size.cols)
  /\ grid' = Push(grid, newRow)
  /\ newRow' = <<>>
  /\ row' = row + 1
  /\ col' = 0
  /\ NoDraw
  /\ UNCHANGED <<random, pc, gen, size, wallDensity, rows, cols, visited, stack, frontiers,
                 parent, walls, i, added, removed, opened, skipped, mode, prev, appVars>>

RandomReturn == pc = "random" /\ ~(row < size.rows) /\ ReturnGrid

\* ------------------------------------------------------------ the caller
Sizes == { GridSize(r, c) : r \in 1 .. MaxRows, c \in 1 .. MaxCols }

CallDFS == pc = "idle" /\ \E sz \in Sizes : StartDFS(sz, "free")

CallPrim == pc = "idle" /\ \E sz \in Sizes : StartPrim(sz, "free")

CallKruskal == pc = "idle" /\ \E sz \in Sizes : StartKruskal(sz, "free")

CallBinaryTree == pc = "idle" /\ \E sz \in Sizes : StartBinaryTree(sz, "free")

RandomSizes == { GridSize(r, c) : r \in 1 .. MaxRandomRows, c \in 1 .. MaxRandomCols }

CallRandom ==
  pc = "idle" /\ \E sz \in RandomSizes, d \in Densities : StartRandom(sz, d, "free")

\* the caller has taken the returned grid, or the exception, and the
\* invocation's frame is gone
Leave ==
  /\ pc \in {"done", "TypeError"}
  /\ pc' = "idle"
  /\ gen' = "none"
  /\ size' = GridSize(1, 1)
  /\ wallDensity' = 0
  /\ rows' = 1
  /\ cols' = 1
  /\ grid' = MakeGrid(1, 1, Walkable)
  /\ Locals(Fresh)
  /\ added' = <<>>
  /\ removed' = <<>>
  /\ opened' = <<>>
  /\ skipped' = 0
  /\ mode' = "free"
  /\ tape' = <<>>
  /\ tpos' = 0
  /\ prev' = <<"none">>

Return == Leave /\ UNCHANGED appVars

Next ==
  \/ CallDFS \/ DFSPush \/ DFSPop \/ DFSReturn
  \/ CallPrim \/ PrimStep \/ PrimReturn
  \/ CallKruskal \/ ShuffleStep \/ ShuffleExit \/ KruskalStep \/ KruskalReturn
  \/ CallBinaryTree \/ BinaryCell \/ BinaryRowEnd \/ BinaryReturn
  \/ CallRandom \/ RandomCell \/ RandomRowEnd \/ RandomReturn
  \/ Return

Spec == Init /\ [][Next]_vars

\* a generator is a synchronous loop: once called it keeps running
Run ==
  \/ DFSPush \/ DFSPop \/ DFSReturn
  \/ PrimStep \/ PrimReturn
  \/ ShuffleStep \/ ShuffleExit \/ KruskalStep \/ KruskalReturn
  \/ BinaryCell \/ BinaryRowEnd \/ BinaryReturn
  \/ RandomCell \/ RandomRowEnd \/ RandomReturn

FairSpec == Init /\ [][Next]_vars /\ WF_vars(Run)

\* ------------------------------------------- recorded and replayed calls
\* the odd sizes of up to DetMaxCellRows x DetMaxCellCols and DetMaxCells maze cells
DetSizes ==
  { sz \in { GridSize(2 * a - 1, 2 * b - 1) : a \in 1 .. DetMaxCellRows,
                                              b \in 1 .. DetMaxCellCols } :
      Cardinality(MazeCells(sz.rows, sz.cols)) <= DetMaxCells }

DetRandomSizes ==
  { GridSize(r, c) : r \in 1 .. DetMaxRandomRows, c \in 1 .. DetMaxRandomCols }

RecordDFS == pc = "idle" /\ \E sz \in DetSizes : StartDFS(sz, "record")

RecordPrim == pc = "idle" /\ \E sz \in DetSizes : StartPrim(sz, "record")

RecordKruskal == pc = "idle" /\ \E sz \in DetSizes : StartKruskal(sz, "record")

RecordBinaryTree == pc = "idle" /\ \E sz \in DetSizes : StartBinaryTree(sz, "record")

RecordRandom ==
  pc = "idle" /\ \E sz \in DetRandomSizes, d \in Densities : StartRandom(sz, d, "record")

\* the same generator is invoked again with the same arguments and a random
\* source that returns the recorded values again
Replay ==
  /\ pc = "done"
  /\ mode = "record"
  /\ CASE gen = "dfs"     -> StartDFS(size, "replay")
       [] gen = "prim"    -> StartPrim(size, "replay")
       [] gen = "kruskal" -> StartKruskal(size, "replay")
       [] gen = "binary"  -> StartBinaryTree(size, "replay")
       [] OTHER           -> StartRandom(size, wallDensity, "replay")

NextDet ==
  \/ RecordDFS \/ DFSPush \/ DFSPop \/ DFSReturn
  \/ RecordPrim \/ PrimStep \/ PrimReturn
  \/ RecordKruskal \/ ShuffleStep \/ ShuffleExit \/ KruskalStep \/ KruskalReturn
  \/ RecordBinaryTree \/ BinaryCell \/ BinaryRowEnd \/ BinaryReturn
  \/ RecordRandom \/ RandomCell \/ RandomRowEnd \/ RandomReturn
  \/ Replay
  \/ Return

SpecDet == Init /\ [][NextDet]_vars

\* ------------------------------------ calls that break the input contract
\* sizes down to -MaxDeficit in either dimension, up to MaxAnyRows x MaxAnyCols
AnySizes ==
  { GridSize(r, c) : r \in (0 - MaxDeficit) .. MaxAnyRows, c \in (0 - MaxDeficit) .. MaxAnyCols }

AnyRandomSizes ==
  { GridSize(r, c) : r \in (0 - MaxDeficit) .. MaxRandomRows,
                     c \in (0 - MaxDeficit) .. MaxRandomCols }

\* densities from -MaxExcess / RandRes to 1 + MaxExcess / RandRes
AnyDensities == (0 - MaxExcess) .. (RandRes + MaxExcess)

CallAnyDFS == pc = "idle" /\ \E sz \in AnySizes : StartDFS(sz, "free")

CallAnyPrim == pc = "idle" /\ \E sz \in AnySizes : StartPrim(sz, "free")

CallAnyKruskal == pc = "idle" /\ \E sz \in AnySizes : StartKruskal(sz, "free")

CallAnyBinaryTree == pc = "idle" /\ \E sz \in AnySizes : StartBinaryTree(sz, "free")

CallAnyRandom ==
  pc = "idle" /\ \E sz \in AnyRandomSizes, d \in AnyDensities : StartRandom(sz, d, "free")

NextAny ==
  \/ CallAnyDFS \/ DFSPush \/ DFSPop \/ DFSReturn
  \/ CallAnyPrim \/ PrimStep \/ PrimReturn
  \/ CallAnyKruskal \/ ShuffleStep \/ ShuffleExit \/ KruskalStep \/ KruskalReturn
  \/ CallAnyBinaryTree \/ BinaryCell \/ BinaryRowEnd \/ BinaryReturn
  \/ CallAnyRandom \/ RandomCell \/ RandomRowEnd \/ RandomReturn
  \/ Return

SpecAny == Init /\ [][NextAny]_vars

\* ------------------------------------------------- gridUtils, exportUtils
\* the grids of up to UtilMaxRows x UtilMaxCols cells
UtilGrids ==
  UNION { [0 .. rs - 1 -> [0 .. cs - 1 -> {Wall, Walkable}]] :
            rs \in 1 .. UtilMaxRows, cs \in 1 .. UtilMaxCols }

\* row and column arguments, from one before the first to one after the last
UtilRowArgs == -1 .. UtilMaxRows

UtilColArgs == -1 .. UtilMaxCols

\* mutant: the column index is not compared
updateCellRow(g, r, c, v) ==
  [rowIndex \in DOMAIN g |-> [colIndex \in DOMAIN g[rowIndex] |->
     IF rowIndex = r THEN v ELSE g[rowIndex][colIndex]]]

\* mutant: an index past either end is clamped to the nearest cell
updateCellClamped(g, r, c, v) ==
  LET near(n, len) == IF n < 0 THEN 0 ELSE IF n >= len THEN len - 1 ELSE n
  IN  [rowIndex \in DOMAIN g |-> [colIndex \in DOMAIN g[rowIndex] |->
         IF /\ rowIndex = near(r, Cardinality(DOMAIN g))
            /\ colIndex = near(c, Cardinality(DOMAIN g[rowIndex]))
         THEN v ELSE g[rowIndex][colIndex]]]

\* grid.map((r, rowIndex) => r.map((cell, colIndex) =>
\*   rowIndex === row && colIndex === col ? value : cell))
updateCell(g, r, c, v) ==
  [rowIndex \in DOMAIN g |-> [colIndex \in DOMAIN g[rowIndex] |->
     IF rowIndex = r /\ colIndex = c THEN v ELSE g[rowIndex][colIndex]]]

\* mutant: the values are inverted whatever the flag says
processedGridAlways(g, invertValues) ==
  [r \in DOMAIN g |-> [c \in DOMAIN g[r] |-> IF g[r][c] = 0 THEN 1 ELSE 0]]

\* invertValues ? grid.map(row => row.map(cell => cell === 0 ? 1 : 0)) : grid
processedGrid(g, invertValues) ==
  IF invertValues
  THEN [r \in DOMAIN g |-> [c \in DOMAIN g[r] |-> IF g[r][c] = 0 THEN 1 ELSE 0]]
  ELSE g

\* a text is the sequence of its pieces; a 0-based array as a sequence
Elements(a) == [n \in 1 .. Cardinality(DOMAIN a) |-> a[n - 1]]

\* Array.prototype.join over pieces: the texts of a sequence with sep between
RECURSIVE Join(_, _)
Join(texts, sep) ==
  IF texts = <<>> THEN <<>>
  ELSE IF Len(texts) = 1 THEN Head(texts)
  ELSE Head(texts) \o sep \o Join(Tail(texts), sep)

\* String(cell) of every cell of a row
CellTexts(rowArray) == [n \in 1 .. Cardinality(DOMAIN rowArray) |-> << ToString(rowArray[n - 1]) >>]

\* the text exportToPython returns, from the value-mapping comment to the array
exportToPython(g, invertValues) ==
  LET pg == processedGrid(g, invertValues)
      rowText(rowArray) == << "        ", "[" >> \o Join(CellTexts(rowArray), << ",", " " >>) \o << "]" >>
      rowsText == Join([n \in 1 .. Cardinality(DOMAIN pg) |-> rowText(pg[n - 1])], << ",", "\n" >>)
  IN  << "# ", IF invertValues THEN "1" ELSE "0", " = wall (obstacle)", "\n",
         "# ", IF invertValues THEN "0" ELSE "1", " = walkable path", "\n",
         "maze = np.array(", "[", "\n" >> \o rowsText \o << "\n", "]", ")" >>

\* the text exportToJSON returns: JSON.stringify(data, null, 2) of the grid,
\* dimensions and valueMapping members
exportToJSON(g, invertValues) ==
  LET pg == processedGrid(g, invertValues)
      rowText(rowArray) ==
        << "    ", "[", "\n", "      " >> \o Join(CellTexts(rowArray), << ",", "\n", "      " >>)
          \o << "\n", "    ", "]" >>
      rowsText == Join([n \in 1 .. Cardinality(DOMAIN pg) |-> rowText(pg[n - 1])], << ",", "\n" >>)
      colCount == IF 0 \in DOMAIN g THEN Cardinality(DOMAIN g[0]) ELSE 0
  IN  << "{", "\n", "  ", "\"grid\": ", "[", "\n" >> \o rowsText \o << "\n", "  ", "]", ",", "\n",
         "  ", "\"dimensions\": ", "{", "\n",
         "    ", "\"rows\": ", ToString(Cardinality(DOMAIN g)), ",", "\n",
         "    ", "\"cols\": ", ToString(colCount), "\n", "  ", "}", ",", "\n",
         "  ", "\"valueMapping\": ",
         IF invertValues THEN "\"1=wall, 0=walkable\"" ELSE "\"0=wall, 1=walkable\"",
         "\n", "}" >>

UtilUnchanged ==
  /\ UNCHANGED <<pc, gen, size, wallDensity, rows, cols, grid, added, removed, opened,
                 skipped, mode, tape, tpos, prev, drawMode, event, arg>>
  /\ UNCHANGED <<genVars, editorVars, canvasVars>>

CallUpdateCell ==
  /\ \E r \in UtilRowArgs, c \in UtilColArgs, v \in {Wall, Walkable} :
       ret' = [fn |-> "updateCell", row |-> r, col |-> c, value |-> v,
               invertValues |-> FALSE, result |-> updateCell(arg, r, c, v)]
  /\ UtilUnchanged

CallExportToPython ==
  /\ \E inv \in BOOLEAN :
       ret' = [fn |-> "exportToPython", row |-> 0, col |-> 0, value |-> 0,
               invertValues |-> inv, result |-> exportToPython(arg, inv)]
  /\ UtilUnchanged

CallExportToJSON ==
  /\ \E inv \in BOOLEAN :
       ret' = [fn |-> "exportToJSON", row |-> 0, col |-> 0, value |-> 0,
               invertValues |-> inv, result |-> exportToJSON(arg, inv)]
  /\ UtilUnchanged

InitUtil ==
  /\ Idle
  /\ drawMode = "wall"
  /\ event = NoEvent
  /\ arg \in UtilGrids
  /\ ret = NoCall
  /\ Mounted

NextUtil == CallUpdateCell \/ CallExportToPython \/ CallExportToJSON

SpecUtil == InitUtil /\ [][NextUtil]_vars

\* ------------------------------------------------- App: the draw mode
DrawModes == {"wall", "walkable", "start", "goal"}

\* the keys a keydown may carry: the documented and the handled letters in
\* either case, and a key without a meaning
Keys == {"q", "e", "s", "g", "w", "p", "Q", "E", "S", "G", "W", "P", "x"}

\* the element that has the focus
Targets == {"BODY", "INPUT", "TEXTAREA"}

KeyboardEvents ==
  [type : {"keydown"}, key : Keys, ctrlKey : BOOLEAN, metaKey : BOOLEAN,
   altKey : BOOLEAN, shiftKey : BOOLEAN, target : Targets]

\* String.prototype.toLowerCase on a key
toLowerCase(k) ==
  CASE k = "Q" -> "q" [] k = "E" -> "e" [] k = "S" -> "s"
    [] k = "G" -> "g" [] k = "W" -> "w" [] k = "P" -> "p"
    [] OTHER -> k

\* the handler keyboardShortcuts.ts builds from KEYBOARD_SHORTCUTS (q, e, s, g;
\* Shift allowed); App imports it and never registers it
createKeyboardHandler(e, current) ==
  IF e.target \in {"INPUT", "TEXTAREA"} THEN current
  ELSE IF e.ctrlKey \/ e.metaKey \/ e.altKey THEN current
  ELSE CASE toLowerCase(e.key) = "q" -> "wall"
         [] toLowerCase(e.key) = "e" -> "walkable"
         [] toLowerCase(e.key) = "s" -> "start"
         [] toLowerCase(e.key) = "g" -> "goal"
         [] OTHER -> current

\* the listener App registers on window: the draw mode after the event e
handleKeyPress(e, current) ==
  IF e.target \in {"INPUT", "TEXTAREA"} THEN current
  ELSE IF ~e.ctrlKey /\ ~e.metaKey /\ ~e.altKey /\ ~e.shiftKey
       THEN CASE toLowerCase(e.key) = "w" -> "wall"
              [] toLowerCase(e.key) = "p" -> "walkable"
              [] toLowerCase(e.key) = "s" -> "start"
              [] toLowerCase(e.key) = "g" -> "goal"
              [] OTHER -> current
       ELSE current

KeysUnchanged ==
  /\ UNCHANGED <<pc, gen, size, wallDensity, rows, cols, grid, added, removed, opened,
                 skipped, mode, tape, tpos, prev, arg, ret>>
  /\ UNCHANGED <<genVars, editorVars, canvasVars>>

\* the window dispatches a keydown and the listener runs
KeyDown ==
  /\ \E e \in KeyboardEvents :
       /\ event' = e
       /\ drawMode' = handleKeyPress(e, drawMode)
  /\ KeysUnchanged

\* a click on a mode button of the toolbar: onModeChange(mode.value)
ClickMode ==
  /\ \E m \in DrawModes :
       /\ event' = [NoEvent EXCEPT !.type = "click", !.target = "BUTTON"]
       /\ drawMode' = m
  /\ KeysUnchanged

NextKeys == KeyDown \/ ClickMode

SpecKeys == Init /\ [][NextKeys]_vars

\* ------------------------------------------------- App: the grid editor
\* sizes the toolbar hands to handleGridSizeChange
AppMaxRows == 1

AppMaxCols == 5

\* the largest grid, in cells, the editor fills at random
AppMaxRandomCells == 1

AppSizes == { GridSize(r, c) : r \in 1 .. AppMaxRows, c \in 1 .. AppMaxCols }

\* createEmptyGrid: every cell pushed is 1
createEmptyGrid(sz) == MakeGrid(sz.rows, sz.cols, Walkable)

\* createFullWallGrid: every cell pushed is 0
createFullWallGrid(sz) == MakeGrid(sz.rows, sz.cols, Wall)

\* rows = grid.length, cols = grid[0]?.length || 0
dimensions(g) ==
  [rows |-> Cardinality(DOMAIN g),
   cols |-> IF 0 \in DOMAIN g THEN Cardinality(DOMAIN g[0]) ELSE 0]

\* where the pointer is, as the row and column Math.floor(mouse / cellSize)
\* gives: on the first or the last cell, or just off the grid on either axis
Pointers(d) ==
  { Pos(-1, 0), Pos(0, -1), Pos(0, 0), Pos(d.rows - 1, d.cols - 1),
    Pos(d.rows - 1, d.cols), Pos(d.rows, d.cols - 1) }

\* mutant: the column is not compared with cols
getCellFromMouseRows(p, d) ==
  IF p.row >= 0 /\ p.row < d.rows /\ p.col >= 0 THEN << p >> ELSE <<>>

\* row >= 0 && row < rows && col >= 0 && col < cols ? { row, col } : null
getCellFromMouse(p, d) ==
  IF p.row >= 0 /\ p.row < d.rows /\ p.col >= 0 /\ p.col < d.cols THEN << p >> ELSE <<>>

\* the cell under the pointer on the grid on display
CellAt(p) == getCellFromMouse(p, dimensions(appGrid))

\* the draw mode decides: a marker is set, or the cell is painted
handleCellInteract(r, c) ==
  /\ startPos' = IF drawMode = "start" THEN << Pos(r, c) >> ELSE startPos
  /\ goalPos' = IF drawMode = "goal" THEN << Pos(r, c) >> ELSE goalPos
  /\ appGrid' = CASE drawMode = "wall" -> updateCell(appGrid, r, c, Wall)
                  [] drawMode = "walkable" -> updateCell(appGrid, r, c, Walkable)
                  [] OTHER -> appGrid
  /\ UNCHANGED <<gridSize, origin>>

\* setGrid(updateCell(grid, row, col, 1))
handleCellRightClick(r, c) ==
  /\ appGrid' = updateCell(appGrid, r, c, Walkable)
  /\ UNCHANGED <<gridSize, startPos, goalPos, origin>>

\* what the handlers of the editor leave alone
EditorUnchanged ==
  /\ UNCHANGED <<pc, gen, size, wallDensity, rows, cols, grid, added, removed, opened,
                 skipped, mode, tape, tpos, prev, event, arg, ret>>
  /\ UNCHANGED genVars

MouseEvent(type, p, b, callback) ==
  [type |-> type, row |-> p.row, col |-> p.col, button |-> b, callback |-> callback]

\* a click has ended: handleMouseUp has called onPaintEnd and reset the refs
Released ==
  /\ isPainting' = FALSE
  /\ lastPaintedCell' = <<>>
  /\ isRightClick' = FALSE
  /\ mouse' = MouseEvent("mouseup", Pos(0, 0), 0, "none")
  /\ drag' = "none"

\* a click of the left button on a cell: handleMouseDown calls onCellInteract
\* with the cell under the pointer, handleMouseUp follows without a move
CellInteract ==
  /\ pc = "idle"
  /\ ~isPainting
  /\ \E p \in Pointers(dimensions(appGrid)) :
       /\ CellAt(p) # <<>>
       /\ handleCellInteract(CellAt(p)[1].row, CellAt(p)[1].col)
  /\ Released
  /\ EditorUnchanged
  /\ UNCHANGED drawMode

\* a click of the right button on a cell: handleMouseDown calls
\* onCellRightClick with the cell under the pointer, handleMouseUp follows
CellRightClick ==
  /\ pc = "idle"
  /\ ~isPainting
  /\ \E p \in Pointers(dimensions(appGrid)) :
       /\ CellAt(p) # <<>>
       /\ handleCellRightClick(CellAt(p)[1].row, CellAt(p)[1].col)
  /\ Released
  /\ EditorUnchanged
  /\ UNCHANGED drawMode

\* a click on a mode button while the editor is at rest
SetDrawMode == pc = "idle" /\ ClickMode

\* mutant: the markers survive the resize
handleGridSizeChangeKeep(newSize) ==
  /\ gridSize' = newSize
  /\ appGrid' = createEmptyGrid(newSize)
  /\ UNCHANGED <<startPos, goalPos>>
  /\ origin' = "createEmptyGrid"

handleGridSizeChange(newSize) ==
  /\ gridSize' = newSize
  /\ appGrid' = createEmptyGrid(newSize)
  /\ startPos' = <<>>
  /\ goalPos' = <<>>
  /\ origin' = "createEmptyGrid"

GridSizeChange ==
  /\ pc = "idle"
  /\ \E newSize \in AppSizes : handleGridSizeChange(newSize)
  /\ EditorUnchanged
  /\ UNCHANGED <<drawMode, canvasVars>>

handleClearGrid ==
  /\ appGrid' = createEmptyGrid(gridSize)
  /\ startPos' = <<>>
  /\ goalPos' = <<>>
  /\ origin' = "createEmptyGrid"
  /\ UNCHANGED gridSize

ClearGrid ==
  /\ pc = "idle"
  /\ handleClearGrid
  /\ EditorUnchanged
  /\ UNCHANGED <<drawMode, canvasVars>>

handleFillWalls ==
  /\ appGrid' = createFullWallGrid(gridSize)
  /\ startPos' = <<>>
  /\ goalPos' = <<>>
  /\ origin' = "createFullWallGrid"
  /\ UNCHANGED gridSize

FillWalls ==
  /\ pc = "idle"
  /\ handleFillWalls
  /\ EditorUnchanged
  /\ UNCHANGED <<drawMode, canvasVars>>

handleClearMarkers ==
  /\ startPos' = <<>>
  /\ goalPos' = <<>>
  /\ UNCHANGED <<gridSize, appGrid, origin>>

ClearMarkers ==
  /\ pc = "idle"
  /\ handleClearMarkers
  /\ EditorUnchanged
  /\ UNCHANGED <<drawMode, canvasVars>>

\* the sizes the editor generates a perfect maze for
Generable == gridSize \in AppSizes

\* handleGenerateMaze, case by case: newGrid = generateMaze...(gridSize)
GenerateDFS == pc = "idle" /\ Generable /\ StartDFS(gridSize, "free")

GeneratePrim == pc = "idle" /\ Generable /\ StartPrim(gridSize, "free")

GenerateKruskal == pc = "idle" /\ Generable /\ StartKruskal(gridSize, "free")

GenerateBinaryTree == pc = "idle" /\ Generable /\ StartBinaryTree(gridSize, "free")

\* the densities of the slider: 0.1 to 0.5, as numerators over RandRes
SliderDensities == { d \in Densities : RandRes <= 10 * d /\ 2 * d <= RandRes }

\* handleGenerateRandom: newGrid = generateRandomMaze(gridSize, density)
GenerateRandom ==
  /\ pc = "idle"
  /\ gridSize \in AppSizes
  /\ gridSize.rows * gridSize.cols <= AppMaxRandomCells
  /\ \E d \in SliderDensities : StartRandom(gridSize, d, "free")

\* setGrid(newGrid); setStartPos(null); setGoalPos(null)
SetGrid ==
  /\ pc = "done"
  /\ Leave
  /\ appGrid' = grid
  /\ startPos' = <<>>
  /\ goalPos' = <<>>
  /\ origin' = gen
  /\ UNCHANGED <<gridSize, drawMode, event, arg, ret, canvasVars>>

NextApp ==
  \/ SetDrawMode \/ CellInteract \/ CellRightClick
  \/ GridSizeChange \/ ClearGrid \/ FillWalls \/ ClearMarkers
  \/ GenerateDFS \/ DFSPush \/ DFSPop \/ DFSReturn
  \/ GeneratePrim \/ PrimStep \/ PrimReturn
  \/ GenerateKruskal \/ ShuffleStep \/ ShuffleExit \/ KruskalStep \/ KruskalReturn
  \/ GenerateBinaryTree \/ BinaryCell \/ BinaryRowEnd \/ BinaryReturn
  \/ GenerateRandom \/ RandomCell \/ RandomRowEnd \/ RandomReturn
  \/ SetGrid

SpecApp == Init /\ [][NextApp]_vars

\* ------------------------------------------------- GridCanvas: the drag
\* e.button: 0 left, 1 middle, 2 right
Buttons == {0, 1, 2}

\* `${cell.row},${cell.col}`
CellKey(cell) == Key(cell.row, cell.col)

\* isRightClick.current ? onCellRightClick(row, col) : onCellInteract(row, col)
Invoke(rightClick, cell) ==
  IF rightClick THEN handleCellRightClick(cell.row, cell.col)
  ELSE handleCellInteract(cell.row, cell.col)

CallbackName(rightClick) == IF rightClick THEN "onCellRightClick" ELSE "onCellInteract"

\* what the handlers of the canvas leave alone
CanvasUnchanged == EditorUnchanged /\ UNCHANGED drawMode

\* handlePaintEnd and the two refs reset
EndPaint ==
  /\ isPainting' = FALSE
  /\ lastPaintedCell' = <<>>
  /\ isRightClick' = FALSE

\* handleMouseDown with the pointer at p and button b
MouseDown ==
  /\ pc = "idle"
  /\ \E p \in Pointers(dimensions(appGrid)), b \in Buttons :
       LET cell == CellAt(p)
       IN  IF cell # <<>>
           THEN /\ isRightClick' = (b = 2)
                /\ isPainting' = TRUE
                /\ lastPaintedCell' = << CellKey(cell[1]) >>
                /\ Invoke(b = 2, cell[1])
                /\ mouse' = MouseEvent("mousedown", p, b, CallbackName(b = 2))
                /\ drag' = IF b = 2 THEN "right" ELSE "left"
           ELSE /\ mouse' = MouseEvent("mousedown", p, b, "none")
                /\ UNCHANGED <<isRightClick, isPainting, lastPaintedCell, drag, editorVars>>
  /\ CanvasUnchanged

\* mutant: the move paints whether or not a drag is in progress
PaintsOnMoveAlways(cell) ==
  cell # <<>> /\ << CellKey(cell[1]) >> # lastPaintedCell

\* handleMouseMove: isPainting, a cell under the pointer, and its key is not
\* lastPaintedCell.current
PaintsOnMove(cell) ==
  isPainting /\ cell # <<>> /\ << CellKey(cell[1]) >> # lastPaintedCell

\* handleMouseMove with the pointer at p
MouseMove ==
  /\ pc = "idle"
  /\ \E p \in Pointers(dimensions(appGrid)) :
       LET cell == CellAt(p)
       IN  IF PaintsOnMove(cell)
           THEN /\ lastPaintedCell' = << CellKey(cell[1]) >>
                /\ Invoke(isRightClick, cell[1])
                /\ mouse' = MouseEvent("mousemove", p, 0, CallbackName(isRightClick))
                /\ UNCHANGED <<isRightClick, isPainting, drag>>
           ELSE /\ mouse' = MouseEvent("mousemove", p, 0, "none")
                /\ UNCHANGED <<isRightClick, isPainting, lastPaintedCell, drag, editorVars>>
  /\ CanvasUnchanged

\* handleMouseUp: the button is released over the canvas
MouseUp ==
  /\ pc = "idle"
  /\ EndPaint
  /\ mouse' = MouseEvent("mouseup", Pos(0, 0), 0, "none")
  /\ drag' = "none"
  /\ UNCHANGED editorVars
  /\ CanvasUnchanged

\* handleMouseLeave: the pointer leaves the canvas
MouseLeave ==
  /\ pc = "idle"
  /\ IF isPainting THEN EndPaint
     ELSE UNCHANGED <<isPainting, lastPaintedCell, isRightClick>>
  /\ mouse' = MouseEvent("mouseleave", Pos(0, 0), 0, "none")
  /\ drag' = "none"
  /\ UNCHANGED editorVars
  /\ CanvasUnchanged

\* handleGlobalMouseUp: the button is released anywhere else in the window
GlobalMouseUp ==
  /\ pc = "idle"
  /\ IF isPainting THEN EndPaint
     ELSE UNCHANGED <<isPainting, lastPaintedCell, isRightClick>>
  /\ mouse' = MouseEvent("window mouseup", Pos(0, 0), 0, "none")
  /\ drag' = "none"
  /\ UNCHANGED editorVars
  /\ CanvasUnchanged

NextCanvas ==
  \/ MouseDown \/ MouseMove \/ MouseUp \/ MouseLeave \/ GlobalMouseUp
  \/ SetDrawMode

SpecCanvas == Init /\ [][NextCanvas]_vars

\* ======================================================= properties
Returned(g) == pc = "done" /\ gen = g

PerfectGens == {"dfs", "prim", "kruskal", "binary"}

\* the positions of the returned grid
Positions == { Pos(r, c) : r \in 0 .. rows - 1, c \in 0 .. cols - 1 }

IsMazeCell(p) == p.row % 2 = 0 /\ p.col % 2 = 0

IsMidpoint(p) == (p.row % 2 = 0) # (p.col % 2 = 0)

OpenAt(p) == grid[p.row][p.col] = Walkable

OpenMidpoints == { p \in Positions : IsMidpoint(p) /\ OpenAt(p) }

Dist(p, q) ==
  (IF p.row > q.row THEN p.row - q.row ELSE q.row - p.row) +
  (IF p.col > q.col THEN p.col - q.col ELSE q.col - p.col)

\* two maze cells two steps apart whose midpoint is open
Linked(p, q) ==
  /\ Dist(p, q) = 2
  /\ p.row = q.row \/ p.col = q.col
  /\ OpenAt(WallBetween(p, q))

\* the maze cells reachable from the set S through open midpoints
RECURSIVE ReachCells(_)
ReachCells(S) ==
  LET more == { q \in MazeCells(rows, cols) : \E p \in S : Linked(p, q) }
  IN  IF more \subseteq S THEN S ELSE ReachCells(S \cup more)

IsSpanningTree ==
  /\ \A p \in MazeCells(rows, cols) : OpenAt(p)
  /\ ReachCells({Pos(0, 0)}) = MazeCells(rows, cols)
  /\ Cardinality(OpenMidpoints) = Cardinality(MazeCells(rows, cols)) - 1

\* C1: the grid generateMazeDFS returns is a spanning tree over the maze cells:
\* every maze cell is Walkable, all are reachable from (0,0) through opened
\* midpoints, and exactly #maze-cells - 1 midpoints are Walkable.
C1_DFSSpanningTree == Returned("dfs") => IsSpanningTree

C1_Witness == Returned("dfs") /\ rows = 5 /\ cols = 5 /\ IsSpanningTree

\* C2: the grid generateMazePrim returns is a spanning tree over the maze cells.
C2_PrimSpanningTree == Returned("prim") => IsSpanningTree

C2_Witness == Returned("prim") /\ rows = 5 /\ cols = 5 /\ IsSpanningTree

\* C3: the grid generateMazeKruskal returns is a spanning tree over the maze
\* cells: the opened midpoints connect all maze cells and number #maze-cells - 1.
C3_KruskalSpanningTree == Returned("kruskal") => IsSpanningTree

\* a run in which the last edge was rejected because its endpoints were joined
C3_Witness ==
  /\ Returned("kruskal")
  /\ Len(walls) = 4
  /\ ~OpenAt(WallBetween(walls[4].from, walls[4].to))
  /\ IsSpanningTree

\* C4: the grid generateMazeBinaryTree returns is a spanning tree over the maze
\* cells, with exactly #maze-cells - 1 distinct midpoints Walkable.
C4_BinaryTreeSpanningTree == Returned("binary") => IsSpanningTree

C4_Witness == Returned("binary") /\ rows = 5 /\ cols = 5 /\ IsSpanningTree

\* --- all Walkable cells under 4-neighbour adjacency
WalkableCells == { p \in Positions : OpenAt(p) }

Adjacent4(p, q) == Dist(p, q) = 1

RECURSIVE Reach4(_)
Reach4(S) ==
  LET more == { q \in WalkableCells : \E p \in S : Adjacent4(p, q) }
  IN  IF more \subseteq S THEN S ELSE Reach4(S \cup more)

\* the adjacent pairs of Walkable cells, each counted once
Edges4 ==
  { <<p, q>> \in WalkableCells \X WalkableCells :
      \/ q.row = p.row /\ q.col = p.col + 1
      \/ q.col = p.col /\ q.row = p.row + 1 }

\* connected and with one edge less than nodes: exactly one simple path
\* between any two Walkable cells
WalkableIsTree ==
  /\ WalkableCells # {}
  /\ \A p \in WalkableCells : Reach4({p}) = WalkableCells
  /\ Cardinality(Edges4) = Cardinality(WalkableCells) - 1

\* C5: in the grid any perfect-maze generator returns, the Walkable cells under
\* 4-neighbour adjacency are connected and cycle-free, so there is exactly one
\* simple path between any two Walkable cells.
C5_SinglePath == (pc = "done" /\ gen \in PerfectGens) => WalkableIsTree

C5_Witness ==
  /\ pc = "done"
  /\ gen = "prim"
  /\ rows = 5 /\ cols = 5
  /\ Cardinality(WalkableCells) = 17
  /\ WalkableIsTree

\* --- dimensions
IsRectangle(g, rs, cs) ==
  /\ DOMAIN g = 0 .. rs - 1
  /\ \A r \in DOMAIN g : DOMAIN g[r] = 0 .. cs - 1

Shrunk(n) == IF n % 2 = 0 THEN n - 1 ELSE n

\* C6: a perfect-maze generator returns a rectangular grid with rows-1 rows for
\* an even request and rows for an odd one, likewise for columns;
\* generateRandomMaze returns a rectangular grid of exactly rows x cols.
C6_Dimensions ==
  /\ (pc = "done" /\ gen \in PerfectGens) =>
        IsRectangle(grid, Shrunk(size.rows), Shrunk(size.cols))
  /\ Returned("random") => IsRectangle(grid, size.rows, size.cols)

C6_Witness ==
  /\ pc = "done"
  /\ gen = "kruskal"
  /\ size = GridSize(4, 3)
  /\ IsRectangle(grid, 3, 3)

\* C8: on a 5x5 request, the bottom-right maze cell (4,4) is the one maze cell
\* of generateMazeBinaryTree that opens no wall from itself, and every other
\* maze cell opens at least one.
C8_BottomRightIsLeaf ==
  (Returned("binary") /\ size = GridSize(5, 5)) =>
     \A p \in MazeCells(rows, cols) : (opened[p] = {}) <=> (p = Pos(4, 4))

\* C8 as amended: on a 5x5 request, the top-right maze cell (0,4) is the one
\* maze cell of generateMazeBinaryTree that opens no wall from itself, and
\* every other maze cell (the bottom-right one included) opens at least one.
C8_TopRightIsLeaf ==
  (Returned("binary") /\ size = GridSize(5, 5)) =>
     \A p \in MazeCells(rows, cols) : (opened[p] = {}) <=> (p = Pos(0, 4))

C8_Witness ==
  /\ Returned("binary")
  /\ size = GridSize(5, 5)
  /\ opened[Pos(0, 4)] = {}
  /\ opened[Pos(4, 4)] = { Pos(3, 4) }

\* --- generateRandomMaze
AllCells(v) == \A r \in DOMAIN grid : \A c \in DOMAIN grid[r] : grid[r][c] = v

\* an iteration of the inner loop of generateRandomMaze
FillsCell == pc = "random" /\ col' = col + 1

\* C7: generateRandomMaze draws one sample per cell and sets that cell Wall
\* exactly when its own sample is below the density, leaving the cells set
\* before as they are; so density 0.0 gives an all-Walkable grid and density
\* 1.0 an all-Wall grid.
C7_DensityThreshold ==
  /\ [][FillsCell =>
          /\ tpos' = tpos + 1
          /\ newRow' = Push(newRow, IF random' < wallDensity THEN Wall ELSE Walkable)
          /\ grid' = grid]_vars
  /\ [](Returned("random") =>
          /\ tpos = size.rows * size.cols
          /\ wallDensity = 0 => AllCells(Walkable)
          /\ wallDensity = RandRes => AllCells(Wall))

C7_Witness ==
  /\ Returned("random")
  /\ size = GridSize(2, 2)
  /\ wallDensity = 2
  /\ random = 1
  /\ grid[0][0] = Wall /\ grid[0][1] = Walkable
  /\ grid[1][0] = Walkable /\ grid[1][1] = Wall

\* C9: a generator invoked again with the same size and parameters and a random
\* source that returns the same values returns the same grid cell for cell,
\* having consumed the same values; nothing an earlier invocation left behind
\* changes the result.
C9_Deterministic ==
  (pc = "done" /\ mode = "replay") => (grid = prev /\ tpos = Len(tape))

C9_Witness ==
  /\ pc = "done"
  /\ mode = "replay"
  /\ gen = "dfs"
  /\ rows = 3 /\ cols = 3
  /\ Len(tape) = 3
  /\ tpos = 3
  /\ grid = prev

\* --- termination
Running == pc \notin {"idle", "done"}

ExactlyOnce(cells) == \A p \in cells : added[p] = 1 /\ removed[p] = 1

\* C10: every invocation terminates; generateMazeDFS ends with an empty stack
\* after every maze cell was pushed once and popped once, generateMazePrim with
\* an empty frontier after every maze cell but the seed was enqueued once and
\* dequeued once.
C10_Terminates ==
  /\ Running ~> (pc = "done")
  /\ [](Returned("dfs") => (stack = <<>> /\ ExactlyOnce(MazeCells(rows, cols))))
  /\ [](Returned("prim") =>
          (frontiers = <<>> /\ ExactlyOnce(MazeCells(rows, cols) \ {Pos(0, 0)})))

C10_Witness ==
  /\ Returned("prim")
  /\ rows = 5 /\ cols = 5
  /\ frontiers = <<>>
  /\ ExactlyOnce(MazeCells(rows, cols) \ {Pos(0, 0)})
  /\ added[Pos(0, 0)] = 0

\* --- arguments outside the contract
InvalidSize == gen # "none" /\ (size.rows <= 0 \/ size.cols <= 0)

\* C11: invoked with a zero or negative dimension, a generator fails with an
\* explicit invalid-grid-size error: it neither returns a grid (empty or
\* malformed) nor dies of an incidental TypeError.
C11_FailsFast == InvalidSize => pc \notin {"done", "TypeError"}

\* the density clamped into [0, 1], as a numerator over RandRes
Clamp(d) == IF d < 0 THEN 0 ELSE IF d > RandRes THEN RandRes ELSE d

\* C12: for a wall density outside [0, 1] generateRandomMaze returns the grid
\* it would return, for the same samples, with the density clamped into
\* [0, 1]: every cell is Wall exactly when its sample is below the clamped
\* density, so a density below 0 gives an all-Walkable grid and a density
\* above 1 an all-Wall grid.
C12_DensityClamped ==
  /\ [][FillsCell =>
          /\ newRow' = Push(newRow, IF random' < Clamp(wallDensity) THEN Wall ELSE Walkable)
          /\ grid' = grid]_vars
  /\ [](Returned("random") =>
          /\ IsRectangle(grid, IF size.rows > 0 THEN size.rows ELSE 0,
                               IF size.cols > 0 THEN size.cols ELSE 0)
          /\ wallDensity < 0 => AllCells(Walkable)
          /\ wallDensity > RandRes => AllCells(Wall))

C12_Witness ==
  /\ Returned("random")
  /\ size = GridSize(2, 2)
  /\ wallDensity = RandRes + MaxExcess
  /\ random = RandRes - 1
  /\ AllCells(Wall)

\* --- updateCell
UpdateCellReturned == ret.fn = "updateCell"

\* the position the call addressed lies inside the grid it was given
AddressedInBounds == ret.row \in DOMAIN arg /\ ret.col \in DOMAIN arg[ret.row]

SameShape(g, h) ==
  /\ DOMAIN g = DOMAIN h
  /\ \A r \in DOMAIN g : DOMAIN g[r] = DOMAIN h[r]

\* C13: for an in-bounds (row, col), updateCell returns a grid of the same
\* dimensions that holds value at (row, col) and the input's value at every
\* other position; the input grid is left as it was; applying the same update
\* to the result gives the result again.
C13_UpdateCell ==
  /\ []((UpdateCellReturned /\ AddressedInBounds) =>
          /\ SameShape(ret.result, arg)
          /\ \A r \in DOMAIN arg : \A c \in DOMAIN arg[r] :
                ret.result[r][c] = IF r = ret.row /\ c = ret.col THEN ret.value ELSE arg[r][c]
          /\ updateCell(ret.result, ret.row, ret.col, ret.value) = ret.result)
  /\ [][UpdateCellReturned' => arg' = arg]_vars

C13_Witness ==
  /\ UpdateCellReturned
  /\ arg = MakeGrid(2, 2, Walkable)
  /\ ret.row = 1 /\ ret.col = 0 /\ ret.value = Wall
  /\ ret.result[1][0] = Wall
  /\ ret.result[0][0] = Walkable /\ ret.result[0][1] = Walkable /\ ret.result[1][1] = Walkable

\* C14: updateCell called with a (row, col) outside the grid's bounds fails:
\* no such call returns a grid.
C14_OutOfBoundsFails ==
  (UpdateCellReturned /\ ~AddressedInBounds) => ret.result \notin UtilGrids

\* C14 as amended: updateCell called with a (row, col) outside the grid's
\* bounds does not fail; it returns a grid equal to its input, cell for cell.
C14_OutOfBoundsCopies ==
  (UpdateCellReturned /\ ~AddressedInBounds) => ret.result = arg

C14_Witness ==
  /\ UpdateCellReturned
  /\ arg = MakeGrid(2, 2, Walkable)
  /\ ret.row = -1 /\ ret.col = 0 /\ ret.value = Wall
  /\ ret.result = MakeGrid(2, 2, Walkable)

\* --- exports
\* reading an emitted text back: the arrays of numbers nested in an array
RECURSIVE ParseArrays(_, _, _, _)
ParseArrays(text, depth, done, cur) ==
  IF text = <<>> THEN done
  ELSE LET t == Head(text)
           rest == Tail(text)
       IN  CASE t = "[" /\ depth < 2 -> ParseArrays(rest, depth + 1, done, <<>>)
             [] t = "]" /\ depth = 2 -> ParseArrays(rest, 1, Append(done, cur), <<>>)
             [] t = "]" /\ depth = 1 -> ParseArrays(rest, 0, done, <<>>)
             [] t \in {"0", "1"} /\ depth = 2 ->
                  ParseArrays(rest, depth, done, Append(cur, IF t = "0" THEN 0 ELSE 1))
             [] OTHER -> ParseArrays(rest, depth, done, cur)

Emitted(text) == ParseArrays(text, 0, <<>>, <<>>)

\* the piece that follows the member name key
Member(text, key) == text[(CHOOSE n \in 1 .. Len(text) - 1 : text[n] = key) + 1]

\* a grid as the sequence of its rows, and back
RowsOf(g) == [r \in 1 .. Cardinality(DOMAIN g) |-> [c \in 1 .. Cardinality(DOMAIN g[r - 1]) |-> g[r - 1][c - 1]]]

GridOf(seqs) == [r \in 0 .. Len(seqs) - 1 |-> [c \in 0 .. Len(seqs[r + 1]) - 1 |-> seqs[r + 1][c + 1]]]

Complement(v) == IF v = Wall THEN Walkable ELSE Wall

ExportReturned == ret.fn \in {"exportToPython", "exportToJSON"}

ExportAgain(g, invertValues) ==
  IF ret.fn = "exportToPython" THEN exportToPython(g, invertValues)
  ELSE exportToJSON(g, invertValues)

\* C16: exportToJSON and exportToPython with invertValues = false emit the grid
\* cell for cell; with invertValues = true they emit the cell-wise complement
\* with the same number of rows and columns; the input grid is left as it was;
\* inverting the emitted inverted grid gives back the original.
C16_ExportInversion ==
  /\ [](ExportReturned =>
          LET emitted == Emitted(ret.result)
          IN  /\ Len(emitted) = Cardinality(DOMAIN arg)
              /\ \A r \in DOMAIN arg :
                    /\ Len(emitted[r + 1]) = Cardinality(DOMAIN arg[r])
                    /\ \A c \in DOMAIN arg[r] :
                          emitted[r + 1][c + 1] =
                            IF ret.invertValues THEN Complement(arg[r][c]) ELSE arg[r][c]
              /\ ret.invertValues => Emitted(ExportAgain(GridOf(emitted), TRUE)) = RowsOf(arg)
              /\ ret.fn = "exportToJSON" =>
                    /\ Member(ret.result, "\"rows\": ") = ToString(Len(emitted))
                    /\ Member(ret.result, "\"cols\": ") = ToString(Len(emitted[1])))
  /\ [][ExportReturned' => arg' = arg]_vars

C16_Witness ==
  /\ ret.fn = "exportToJSON"
  /\ ret.invertValues
  /\ arg = [MakeGrid(2, 2, Walkable) EXCEPT ![0] = [@ EXCEPT ![0] = Wall]]
  /\ Emitted(ret.result) = << <<Walkable, Wall>>, <<Wall, Wall>> >>

\* --- keyboard shortcuts
\* the last event was a keydown with no Ctrl/Meta/Alt and the focus outside
\* any input or textarea, carrying the letter k in either case
PlainKeyDown(k) ==
  /\ event.type = "keydown"
  /\ ~event.ctrlKey /\ ~event.metaKey /\ ~event.altKey
  /\ event.target \notin {"INPUT", "TEXTAREA"}
  /\ toLowerCase(event.key) = k

\* C15: in the running App, a keydown of Q with no Ctrl/Meta/Alt modifier and
\* the focus outside any input or textarea sets the draw mode to 'wall', E
\* sets it to 'walkable', S to 'start' and G to 'goal'.
C15_Shortcuts ==
  /\ PlainKeyDown("q") => drawMode = "wall"
  /\ PlainKeyDown("e") => drawMode = "walkable"
  /\ PlainKeyDown("s") => drawMode = "start"
  /\ PlainKeyDown("g") => drawMode = "goal"

\* --- the degenerate 1x1 maze
\* generateMazeDFS runs on a request whose odd-adjusted dimensions are 1x1
DegenerateDFS == gen = "dfs" /\ size.rows \in {1, 2} /\ size.cols \in {1, 2}

\* C17: for a size whose odd-adjusted dimensions are 1x1 (rows and cols each 1
\* or 2) generateMazeDFS finds no neighbour for the seed, pops it in its first
\* loop iteration, opens no wall and returns the 1x1 grid whose cell is
\* Walkable.
C17_DegenerateDFS ==
  /\ []((DegenerateDFS /\ pc = "dfs" /\ stack # <<>>) =>
          /\ stack = << Pos(0, 0) >>
          /\ removed[Pos(0, 0)] = 0
          /\ getUnvisitedNeighbors(0, 0, visited) = <<>>)
  /\ [][(DegenerateDFS /\ pc = "dfs") =>
          (stack' = <<>> /\ grid' = grid /\ tpos' = tpos)]_vars
  /\ []((DegenerateDFS /\ pc = "done") =>
          /\ grid = MakeGrid(1, 1, Walkable)
          /\ added[Pos(0, 0)] = 1 /\ removed[Pos(0, 0)] = 1
          /\ tpos = 0)

C17_Witness ==
  /\ DegenerateDFS
  /\ pc = "done"
  /\ size = GridSize(2, 2)
  /\ rows = 1 /\ cols = 1
  /\ removed[Pos(0, 0)] = 1
  /\ grid = MakeGrid(1, 1, Walkable)

\* --- the Prim frontier
InPrim == gen = "prim" /\ pc \in {"prim", "done"}

\* C18: every cell generateMazePrim removes from the frontier has, at its
\* removal, at least one maze-cell neighbour that is already Walkable, so the
\* branch that skips a cell without such a neighbour is never taken and every
\* dequeued cell is finalized (made Walkable and joined to the maze).
C18_FrontierHasMazeNeighbor ==
  /\ [](InPrim =>
          /\ \A n \in 1 .. Len(frontiers) :
                Len(getNeighborInMaze(frontiers[n].row, frontiers[n].col, grid)) > 0
          /\ skipped = 0
          /\ \A p \in DOMAIN removed : removed[p] > 0 =>
                /\ OpenAt(p)
                /\ \E q \in MazeCells(rows, cols) : Linked(p, q))
  /\ [][(pc = "prim" /\ pc' = "prim") =>
          \E n \in 1 .. Len(frontiers) :
            /\ removed' = Bump(removed, frontiers[n])
            /\ Len(getNeighborInMaze(frontiers[n].row, frontiers[n].col, grid)) > 0
            /\ grid'[frontiers[n].row][frontiers[n].col] = Walkable]_vars

C18_Witness ==
  /\ gen = "prim" /\ pc = "prim"
  /\ rows = 5 /\ cols = 5
  /\ removed[Pos(2, 2)] = 1
  /\ OpenAt(Pos(2, 2))
  /\ Len(frontiers) = 2
  /\ skipped = 0

\* C19: at every step of generateMazePrim the frontier holds no position
\* twice and no cell that is already Walkable, and each maze cell is enqueued
\* at most once.
C19_FrontierDistinct ==
  InPrim =>
    /\ \A m, n \in 1 .. Len(frontiers) : m # n => frontiers[m] # frontiers[n]
    /\ \A n \in 1 .. Len(frontiers) : ~OpenAt(frontiers[n])
    /\ \A p \in DOMAIN added : added[p] <= 1

C19_Witness ==
  /\ gen = "prim" /\ pc = "prim"
  /\ rows = 5 /\ cols = 5
  /\ Len(frontiers) = 4
  /\ Cardinality({ frontiers[n] : n \in 1 .. 4 }) = 4
  /\ \A n \in 1 .. 4 : added[frontiers[n]] = 1 /\ ~OpenAt(frontiers[n])

\* --- the Kruskal candidate list
\* the unordered pairs of maze cells two steps apart in a row or a column
AdjacentPairs ==
  { {p, q} : <<p, q>> \in { pq \in MazeCells(rows, cols) \X MazeCells(rows, cols) :
                              /\ Dist(pq[1], pq[2]) = 2
                              /\ pq[1].row = pq[2].row \/ pq[1].col = pq[2].col } }

Rearrangements(seq) ==
  { s \in [1 .. Len(seq) -> { seq[n] : n \in 1 .. Len(seq) }] :
      \A n \in 1 .. Len(seq) : \E m \in 1 .. Len(seq) : s[m] = seq[n] }

\* the sample sequences the shuffle of a list of n entries can draw
DrawSequences(n) == [1 .. (IF n > 0 THEN n - 1 ELSE 0) -> RandomValues]

\* C20: the candidate list of generateMazeKruskal holds exactly one entry per
\* pair of maze cells two steps apart, R*(C-1) + (R-1)*C entries for R x C
\* maze cells; the shuffle leaves it a permutation of the list it started
\* from; and every permutation is the outcome of some sequence of draws.
C20_KruskalCandidates ==
  gen = "kruskal" =>
    LET R == EvenCount(rows)
        C == EvenCount(cols)
        initial == wallList(cellList(rows, cols), rows, cols)
    IN  /\ Len(walls) = R * (C - 1) + (R - 1) * C
        /\ { {walls[n].from, walls[n].to} : n \in 1 .. Len(walls) } = AdjacentPairs
        /\ Cardinality(AdjacentPairs) = Len(walls)
        /\ walls \in Rearrangements(initial)
        /\ walls = shuffle(initial, SubSeq(tape, 1, tpos))
        /\ { shuffle(initial, us) : us \in DrawSequences(Len(initial)) } = Rearrangements(initial)

\* the shuffle has turned the list of four candidates around
C20_Witness ==
  /\ gen = "kruskal" /\ pc = "kruskal"
  /\ rows = 3 /\ cols = 3
  /\ Len(walls) = 4
  /\ LET initial == wallList(cellList(rows, cols), rows, cols)
     IN  \A n \in 1 .. 4 : walls[n] = initial[5 - n]

\* --- the Kruskal union-find
KeyOf(p) == Key(p.row, p.col)

MazeKeys == { KeyOf(p) : p \in MazeCells(rows, cols) }

\* the cells met following parent links from x, x first, at most fuel links
RECURSIVE PathFrom(_, _, _)
PathFrom(par, x, fuel) ==
  IF fuel = 0 \/ par[x] = x THEN << x >>
  ELSE << x >> \o PathFrom(par, par[x], fuel - 1)

\* the links from x end in a self-parented root after fewer than n links,
\* without meeting a cell twice
EndsInRoot(par, x, n) ==
  LET path == PathFrom(par, x, n)
      last == path[Len(path)]
  IN  /\ par[last] = last
      /\ Len(path) <= n
      /\ Cardinality({ path[k] : k \in 1 .. Len(path) }) = Len(path)

IsForest(par) ==
  /\ DOMAIN par = MazeKeys
  /\ \A x \in DOMAIN par : par[x] \in DOMAIN par
  /\ \A x \in DOMAIN par : EndsInRoot(par, x, Cardinality(MazeKeys))

RootOf(par, x) ==
  LET path == PathFrom(par, x, Cardinality(DOMAIN par)) IN path[Len(path)]

InKruskal == gen = "kruskal" /\ pc \in {"shuffle", "kruskal", "done"}

\* C21: find(x) returns the self-parented root reached by following parent
\* links from x; afterwards x and every cell on the path from x to that root
\* point directly at the root, every other link is as before, and the cells
\* that share a root are the same as before.
C21_FindCompresses ==
  InKruskal =>
    \A x \in DOMAIN parent :
      LET f == find(parent, x)
          path == PathFrom(parent, x, Cardinality(DOMAIN parent))
      IN  /\ f.root = RootOf(parent, x)
          /\ parent[f.root] = f.root
          /\ \A k \in 1 .. Len(path) : f.parent[path[k]] = f.root
          /\ \A y \in DOMAIN parent :
                (\A k \in 1 .. Len(path) : y # path[k]) => f.parent[y] = parent[y]
          /\ \A y, z \in DOMAIN parent :
                (RootOf(f.parent, y) = RootOf(f.parent, z)) <=>
                (RootOf(parent, y) = RootOf(parent, z))

\* a cell two links away from its root: find has a path to flatten
C21_Witness ==
  /\ InKruskal
  /\ pc = "kruskal"
  /\ \E x \in DOMAIN parent :
        /\ parent[x] # x
        /\ parent[parent[x]] # parent[x]
        /\ find(parent, x).parent[x] = RootOf(parent, x)
        /\ find(parent, x).parent # parent

\* C22: in every state of generateMazeKruskal the parent map is defined for
\* every maze cell and its links form a forest: following them from any cell
\* reaches a self-parented root in fewer than #maze-cells links without
\* meeting a cell twice, so the recursion of find is at most #maze-cells deep.
C22_ParentForest == InKruskal => IsForest(parent)

C22_Witness ==
  /\ InKruskal
  /\ pc = "done"
  /\ rows = 3 /\ cols = 3
  /\ IsForest(parent)
  /\ Cardinality({ RootOf(parent, x) : x \in DOMAIN parent }) = 1
  /\ \E x \in DOMAIN parent : Len(PathFrom(parent, x, 4)) = 3

\* C24: during the edge loop of generateMazeKruskal, after each processed
\* edge, two maze cells have the same find-representative exactly when they
\* are connected in the grid through Walkable midpoints; an edge is opened
\* exactly when its endpoints are not yet connected in the grid.
C24_RepresentativeIsConnectivity ==
  /\ []((gen = "kruskal" /\ pc \in {"kruskal", "done"}) =>
          \A p, q \in MazeCells(rows, cols) :
            (find(parent, KeyOf(p)).root = find(parent, KeyOf(q)).root) <=>
            (q \in ReachCells({p})))
  /\ [][(pc = "kruskal" /\ i' = i + 1) =>
          LET wall == walls[i + 1]
              mid == WallBetween(wall.from, wall.to)
          IN  /\ (grid' # grid) <=> (wall.to \notin ReachCells({wall.from}))
              /\ grid' # grid => grid' = SetCell(grid, mid.row, mid.col, Walkable)]_vars

\* the fourth edge was rejected: its endpoints were already connected
C24_Witness ==
  /\ gen = "kruskal" /\ pc = "kruskal"
  /\ Len(walls) = 4 /\ i = 4
  /\ ~OpenAt(WallBetween(walls[4].from, walls[4].to))
  /\ walls[4].to \in ReachCells({walls[4].from})
  /\ find(parent, KeyOf(walls[4].from)).root = find(parent, KeyOf(walls[4].to)).root

\* --- the Binary-Tree bias
\* (r, c) comes before the loop position in row-major order
ScannedBinary(p) == p.row < row \/ (p.row = row /\ p.col < col)

\* C23: in generateMazeBinaryTree each maze cell, visited in row-major order,
\* opens at most one midpoint from itself: the one directly above it (only
\* when it is not in the first row) or the one directly to its right (only
\* when a maze cell exists to its right); never the one below or to the left.
C23_BinaryBias ==
  /\ []((gen = "binary" /\ pc \in {"binary", "done"}) =>
          \A p \in MazeCells(rows, cols) :
            /\ Cardinality(opened[p]) <= 1
            /\ opened[p] \subseteq
                  (IF p.row > 0 THEN { Pos(p.row - 1, p.col) } ELSE {}) \cup
                  (IF p.col + 2 < cols THEN { Pos(p.row, p.col + 1) } ELSE {})
            /\ \A w \in opened[p] : OpenAt(w)
            /\ ~ScannedBinary(p) => (opened[p] = {} /\ ~OpenAt(p))
            /\ ScannedBinary(p) => OpenAt(p))
  /\ [][(pc = "binary" /\ col' = col + 2) =>
          /\ \A p \in MazeCells(rows, cols) \ {Pos(row, col)} : opened'[p] = opened[p]
          /\ \A p \in Positions :
                (grid'[p.row][p.col] # grid[p.row][p.col]) =>
                (p = Pos(row, col) \/ p \in opened'[Pos(row, col)])]_vars

C23_Witness ==
  /\ Returned("binary")
  /\ rows = 5 /\ cols = 5
  /\ opened[Pos(2, 2)] = { Pos(1, 2) }
  /\ opened[Pos(4, 2)] = { Pos(4, 3) }
  /\ ~OpenAt(Pos(3, 2)) /\ ~OpenAt(Pos(2, 1)) /\ ~OpenAt(Pos(2, 3))

\* C27: in every grid generateMazeBinaryTree returns, all cells of the top
\* row and all cells of the last column of the odd-adjusted grid are Walkable,
\* and the top-right maze cell is the only maze cell that opens no wall from
\* itself, whatever the random choices.
C27_BinaryTopRowLastColumn ==
  Returned("binary") =>
    /\ \A c \in 0 .. cols - 1 : grid[0][c] = Walkable
    /\ \A r \in 0 .. rows - 1 : grid[r][cols - 1] = Walkable
    /\ \A p \in MazeCells(rows, cols) : (opened[p] = {}) <=> (p = Pos(0, cols - 1))

C27_Witness ==
  /\ Returned("binary")
  /\ size = GridSize(4, 5)
  /\ rows = 3 /\ cols = 5
  /\ \A c \in 0 .. 4 : grid[0][c] = Walkable
  /\ \A r \in 0 .. 2 : grid[r][4] = Walkable
  /\ opened[Pos(0, 4)] = {}
  /\ opened[Pos(2, 0)] = { Pos(2, 1) }

\* --- the DFS stack
\* C25: at every iteration of the generateMazeDFS loop the stack is a simple
\* path starting at (0,0): consecutive entries are maze cells two steps apart
\* whose midpoint is Walkable, no cell is on the stack twice, and a maze cell
\* is visited exactly when it is Walkable.
C25_StackIsPath ==
  (gen = "dfs" /\ pc = "dfs") =>
    /\ stack # <<>> => stack[1] = Pos(0, 0)
    /\ \A n \in 1 .. Len(stack) : stack[n] \in MazeCells(rows, cols)
    /\ \A n \in 1 .. Len(stack) - 1 : Linked(stack[n], stack[n + 1])
    /\ \A m, n \in 1 .. Len(stack) : m # n => stack[m] # stack[n]
    /\ \A p \in MazeCells(rows, cols) : visited[p.row][p.col] <=> OpenAt(p)

C25_Witness ==
  /\ gen = "dfs" /\ pc = "dfs"
  /\ rows = 5 /\ cols = 5
  /\ Len(stack) = 9
  /\ stack[1] = Pos(0, 0)
  /\ \A n \in 1 .. 8 : Linked(stack[n], stack[n + 1])
  /\ Cardinality({ stack[n] : n \in 1 .. 9 }) = 9

\* --- the cells that are never opened
\* C26: in the grid a perfect-maze generator returns, every cell at (odd row,
\* odd col) is Wall, and every Walkable midpoint lies between two Walkable
\* maze cells of the grid: no opened midpoint is a dead stub.
C26_NoStubs ==
  (pc = "done" /\ gen \in PerfectGens) =>
    \A p \in Positions :
      /\ (p.row % 2 = 1 /\ p.col % 2 = 1) => ~OpenAt(p)
      /\ (IsMidpoint(p) /\ OpenAt(p)) =>
            LET a == IF p.row % 2 = 1 THEN Pos(p.row - 1, p.col) ELSE Pos(p.row, p.col - 1)
                b == IF p.row % 2 = 1 THEN Pos(p.row + 1, p.col) ELSE Pos(p.row, p.col + 1)
            IN  /\ a \in MazeCells(rows, cols) /\ OpenAt(a)
                /\ b \in MazeCells(rows, cols) /\ OpenAt(b)

C26_Witness ==
  /\ Returned("dfs")
  /\ rows = 5 /\ cols = 5
  /\ \A p \in Positions : (p.row % 2 = 1 /\ p.col % 2 = 1) => ~OpenAt(p)
  /\ OpenAt(Pos(0, 1)) /\ OpenAt(Pos(0, 0)) /\ OpenAt(Pos(0, 2))
  /\ Cardinality(OpenMidpoints) = 8

\* --- the editor's markers
\* a marker is null or a position of the grid on display
MarkerInGrid(m) ==
  \/ m = <<>>
  \/ /\ m[1].row >= 0 /\ m[1].row < dimensions(appGrid).rows
     /\ m[1].col >= 0 /\ m[1].col < dimensions(appGrid).cols

\* C28: in every reachable state of App, startPos and goalPos are each null
\* or a position inside the grid on display; and every step that puts a grid
\* of other dimensions or of another origin on display (resize, generation,
\* clear, fill walls) leaves both markers null.
C28_MarkersInBounds ==
  /\ [](MarkerInGrid(startPos) /\ MarkerInGrid(goalPos))
  /\ [][(dimensions(appGrid') # dimensions(appGrid) \/ origin' # origin)
          => (startPos' = <<>> /\ goalPos' = <<>>)]_vars

\* both markers are set on a maze narrower than the requested size, one of
\* them in its last column
C28_Witness ==
  /\ pc = "idle"
  /\ origin \in PerfectGens
  /\ gridSize = GridSize(1, 4)
  /\ dimensions(appGrid) = GridSize(1, 3)
  /\ startPos = << Pos(0, 2) >>
  /\ goalPos = << Pos(0, 0) >>

\* --- the grid on display and the requested size
\* a dimension of the grid is the requested one, or one less for an even
\* request served by a perfect-maze generator
DimensionFits(n, requested) ==
  \/ n = requested
  \/ n = requested - 1 /\ requested % 2 = 0 /\ origin \in PerfectGens

MoveStep == mouse' # mouse /\ mouse'.type = "mousemove"

\* C30: a mouse-move invokes a cell callback if and only if painting is
\* active, the pointer is over a cell of the grid and that cell is not the
\* last painted one; the callback is onCellRightClick when the mouse-down
\* that started the drag had the right button and onCellInteract otherwise;
\* and no move invokes a callback unless a mouse-down on a cell came after
\* the last mouse-up or mouse-leave.
C30_DragPaints ==
  [][MoveStep =>
       LET cell == CellAt(Pos(mouse'.row, mouse'.col))
       IN  /\ (mouse'.callback # "none") <=>
                (/\ isPainting
                 /\ cell # <<>>
                 /\ lastPaintedCell # << CellKey(cell[1]) >>)
           /\ (mouse'.callback # "none") =>
                /\ drag # "none"
                /\ mouse'.callback =
                     IF drag = "right" THEN "onCellRightClick" ELSE "onCellInteract"
                /\ lastPaintedCell' = << CellKey(cell[1]) >>]_vars

\* a right-button drag from the first cell has just painted the last cell
C30_Witness ==
  /\ mouse = MouseEvent("mousemove", Pos(InitialRows - 1, InitialCols - 1), 0, "onCellRightClick")
  /\ drag = "right"
  /\ isPainting
  /\ lastPaintedCell = << Key(InitialRows - 1, InitialCols - 1) >>

====
